---- MODULE Spec2Model ----
(***************************************************************************)
(* Snap2Fix (src/app.py): a four-step Streamlit wizard.  Every user        *)
(* interaction re-executes the script top to bottom against the session    *)
(* state (step, data, ai_questions, final_report) and the widget values.   *)
(* One action of this model is one user interaction together with the      *)
(* script run(s) it triggers, st.rerun() included.                         *)
(***************************************************************************)
EXTENDS Integers, Sequences, FiniteSets, TLC

VARIABLES
    step,            \* st.session_state.step
    data,            \* st.session_state.data (the Case Store), a dict
    ai_questions,    \* st.session_state.ai_questions, a Python value
    final_report,    \* st.session_state.final_report, or absent
    secrets,         \* st.secrets, a dict that may hold OPENAI_API_KEY
    key_input,       \* sidebar text_input "Enter API Key"
    address,         \* step-1 text_input "Enter Property Address"
    uploaded_file,   \* step-2 file_uploader value
    desc_input,      \* step-2 text_area value
    form_answers,    \* step-3 form: the text typed into each answer field
    screen,          \* messages on screen after the last script run
    outbound,        \* requests handed to chat.completions.create by the last interaction
    inbound,         \* the service's replies to them
    crashed,         \* the last script run ended in an uncaught exception
    pressed,         \* the st.button that returned True in the last interaction
    enc_arg,         \* argument of a direct encode_image call
    enc_ret          \* its return value

vars == <<step, data, ai_questions, final_report, secrets, key_input,
          address, uploaded_file, desc_input, form_answers, screen,
          outbound, inbound, crashed, pressed, enc_arg, enc_ret>>

wizardVars == <<step, data, ai_questions, final_report, secrets, key_input,
                address, uploaded_file, desc_input, form_answers, screen,
                outbound, inbound, crashed, pressed>>

(***************************************************************************)
(* Bounds of the model.                                                    *)
(***************************************************************************)
MaxFragments == 2     \* an address is at most this many text fragments
MaxQuestions == 4     \* the service returns at most this many questions
MaxBytes == 3         \* an uploaded file has at most this many bytes (SpecEncode)

(***************************************************************************)
(* Text.  Where the code looks inside a string (lower(), `in`, iteration)  *)
(* the string is a sequence of one-character strings.                      *)
(***************************************************************************)
UpperChars == <<"A","B","C","D","E","F","G","H","I","J","K","L","M",
                "N","O","P","Q","R","S","T","U","V","W","X","Y","Z">>
LowerChars == <<"a","b","c","d","e","f","g","h","i","j","k","l","m",
                "n","o","p","q","r","s","t","u","v","w","x","y","z">>

char_lower(c) ==
    IF \E i \in 1..Len(UpperChars) : UpperChars[i] = c
    THEN LowerChars[CHOOSE i \in 1..Len(UpperChars) : UpperChars[i] = c]
    ELSE c

char_upper(c) ==
    IF \E i \in 1..Len(LowerChars) : LowerChars[i] = c
    THEN UpperChars[CHOOSE i \in 1..Len(LowerChars) : LowerChars[i] = c]
    ELSE c

\* str.lower()
str_lower(s) == [i \in 1..Len(s) |-> char_lower(s[i])]

\* str.upper(), used only to build inputs
str_upper(s) == [i \in 1..Len(s) |-> char_upper(s[i])]

\* Python's `needle in hay` on strings
str_in(needle, hay) ==
    \E k \in 0..(Len(hay) - Len(needle)) :
        SubSeq(hay, k + 1, k + Len(needle)) = needle

(***************************************************************************)
(* MOCK_PROPERTY_DB, in insertion order (a Python dict iterates in it).    *)
(***************************************************************************)
Key123MainSt == <<"1","2","3"," ","M","a","i","n"," ","S","t">>
Key456OakAve == <<"4","5","6"," ","O","a","k"," ","A","v","e">>
Key789PineRd == <<"7","8","9"," ","P","i","n","e"," ","R","d">>

MOCK_PROPERTY_DB ==
    << [key |-> Key123MainSt, year |-> 1954, sqft |-> 1200,
        plans |-> <<"Ranch Style (Crawlspace)", "Bungalow (Slab)">>],
       [key |-> Key456OakAve, year |-> 1988, sqft |-> 2400,
        plans |-> <<"2-Story Colonial", "Split Level">>],
       [key |-> Key789PineRd, year |-> 2015, sqft |-> 3000,
        plans |-> <<"Modern Open Concept", "Traditional Basement">>] >>

DefaultYear == 1990
DefaultPlans == <<"Standard Layout">>

\* found_data = None
NoRecord == [key |-> <<>>, year |-> 0, sqft |-> 0, plans |-> <<>>]

\* a faulty loop: no break, the last matching key wins
RECURSIVE find_last_from(_, _)
find_last_from(addr, i) ==
    IF i > Len(MOCK_PROPERTY_DB) THEN NoRecord
    ELSE LET later == find_last_from(addr, i + 1)
         IN  IF later # NoRecord THEN later
             ELSE IF str_in(str_lower(MOCK_PROPERTY_DB[i].key), str_lower(addr))
                  THEN MOCK_PROPERTY_DB[i]
                  ELSE NoRecord

\* the matching loop: first key, in table order, found in the address
RECURSIVE find_from(_, _)
find_from(addr, i) ==
    IF i > Len(MOCK_PROPERTY_DB) THEN NoRecord
    ELSE IF str_in(str_lower(MOCK_PROPERTY_DB[i].key), str_lower(addr))
         THEN MOCK_PROPERTY_DB[i]
         ELSE find_from(addr, i + 1)

find_record(addr) == find_from(addr, 1)

(***************************************************************************)
(* Python dicts and None.                                                  *)
(***************************************************************************)
EmptyDict == <<>>

Has(d, k) == k \in DOMAIN d

\* d[k] = v
Put(d, k, v) == [x \in (DOMAIN d) \cup {k} |-> IF x = k THEN v ELSE d[x]]

(***************************************************************************)
(* Uploaded files: name, MIME type, content.  NoFile is None.  An          *)
(* UploadedFile is a BytesIO, so every file, the empty one included, is    *)
(* truthy.                                                                 *)
(***************************************************************************)
NoFile == [name |-> "", type |-> <<>>, bytes |-> <<>>]

Truthy(f) == f # NoFile

MimeImagePng == <<"i","m","a","g","e","/","p","n","g">>
MimeImageJpeg == <<"i","m","a","g","e","/","j","p","e","g">>
MimeVideoMp4 == <<"v","i","d","e","o","/","m","p","4">>
KindImage == <<"i","m","a","g","e">>
KindVideo == <<"v","i","d","e","o">>

PhotoPng == [name |-> "leak.png", type |-> MimeImagePng, bytes |-> <<137, 80>>]
PhotoJpg == [name |-> "pipe.jpg", type |-> MimeImageJpeg, bytes |-> <<255, 216, 255>>]
ClipMp4 == [name |-> "drip.mp4", type |-> MimeVideoMp4, bytes |-> <<0>>]

\* what the user can put into the step-2 uploader
UploadChoices == {PhotoPng, PhotoJpg, ClipMp4}

\* uploaded_file.type.split('/')[0]
RECURSIVE split_first(_, _)
split_first(s, sep) ==
    IF s = <<>> \/ Head(s) = sep THEN <<>>
    ELSE <<Head(s)>> \o split_first(Tail(s), sep)

(***************************************************************************)
(* base64.b64encode(...).decode('utf-8'): three bytes become four          *)
(* characters of the alphabet, a short last group is padded with "=".      *)
(***************************************************************************)
DigitChars == <<"0","1","2","3","4","5","6","7","8","9">>
B64Alphabet == UpperChars \o LowerChars \o DigitChars \o <<"+", "/">>

B64Char(n) == B64Alphabet[(n % 64) + 1]

\* a faulty encoder: the bytes of a short last group are left out
RECURSIVE b64encode_no_tail(_)
b64encode_no_tail(b) ==
    IF Len(b) < 3 THEN <<>>
    ELSE LET n == b[1] * 65536 + b[2] * 256 + b[3]
         IN  <<B64Char(n \div 262144), B64Char(n \div 4096),
               B64Char(n \div 64), B64Char(n)>>
             \o b64encode_no_tail(SubSeq(b, 4, Len(b)))

RECURSIVE b64encode(_)
b64encode(b) ==
    IF Len(b) = 0 THEN <<>>
    ELSE IF Len(b) = 1 THEN
        LET n == b[1] * 65536
        IN  <<B64Char(n \div 262144), B64Char(n \div 4096), "=", "=">>
    ELSE IF Len(b) = 2 THEN
        LET n == b[1] * 65536 + b[2] * 256
        IN  <<B64Char(n \div 262144), B64Char(n \div 4096), B64Char(n \div 64), "=">>
    ELSE
        LET n == b[1] * 65536 + b[2] * 256 + b[3]
        IN  <<B64Char(n \div 262144), B64Char(n \div 4096),
              B64Char(n \div 64), B64Char(n)>>
            \o b64encode(SubSeq(b, 4, Len(b)))

\* encode_image's result: None, or the base64 text
NoText == [none |-> TRUE, text |-> <<>>]
Text(s) == [none |-> FALSE, text |-> s]

encode_image(f) ==
    IF f = NoFile THEN NoText ELSE Text(b64encode(f.bytes))

(***************************************************************************)
(* JSON documents and the Python values json.loads makes of them.          *)
(* An object is its (key, value) pairs in order, as a dict keeps them.     *)
(***************************************************************************)
JNull == [t |-> "null"]
JNum(n) == [t |-> "num", n |-> n]
JStr(s) == [t |-> "str", s |-> s]
JList(x) == [t |-> "list", items |-> x]
JObj(p) == [t |-> "obj", pairs |-> p]

\* message.content of a stage-1 response: a JSON text, or text that is no JSON
JsonText(doc) == [json |-> TRUE, doc |-> doc]
NotJson == [json |-> FALSE, doc |-> JNull]

\* json.loads: the value, or an exception
json_loads(content) ==
    IF content.json THEN [raised |-> FALSE, value |-> content.doc]
    ELSE [raised |-> TRUE, value |-> JNull]

\* dict.get(key, default) on a parsed object
RECURSIVE pairs_get(_, _, _)
pairs_get(p, key, default) ==
    IF p = <<>> THEN default
    ELSE IF Head(p)[1] = key THEN Head(p)[2]
    ELSE pairs_get(Tail(p), key, default)

\* iteration (enumerate, zip): lists give their items, strings their
\* characters, dicts their keys; None and numbers raise TypeError
Iterable(v) == v.t \in {"list", "str", "obj"}

py_iter(v) ==
    CASE v.t = "list" -> v.items
      [] v.t = "str" -> v.s
      [] v.t = "obj" -> [i \in 1..Len(v.pairs) |-> v.pairs[i][1]]
      [] OTHER -> <<>>

(***************************************************************************)
(* The outbound requests and the two AI calls.                             *)
(***************************************************************************)
PyNone == "None"

\* case_data.get(k)
dict_get(d, k) == IF Has(d, k) THEN d[k] ELSE PyNone

TextBlock(prompt) == [type |-> "text", text |-> prompt]
ImageBlock(b64) ==
    [type |-> "image_url", prefix |-> "data:image/jpeg;base64,", b64 |-> b64]

ExceptQuestions ==
    <<"Is the leak constant?", "Is the water warm?", "Is there a bathroom above?">>
GetDefaultQuestions ==
    <<"Is the water constant or intermittent?", "Is it warm?", "Any recent repairs?">>

\* a reply of the service: an error of any kind (transport, timeout,
\* non-success status), or a message with its content
ErrorReply == [status |-> "error", content |-> NotJson, text |-> ""]
JsonReply(content) == [status |-> "ok", content |-> content, text |-> ""]
TextReply(t) == [status |-> "ok", content |-> NotJson, text |-> t]

\* the image block both calls append: `if image_file:`
image_blocks(image_file) ==
    IF Truthy(image_file) THEN <<ImageBlock(encode_image(image_file).text)>> ELSE <<>>

\* a faulty variant: result["questions"] with no default, so that a missing
\* key ends in the except branch with an empty list
generate_dynamic_questions_no_default(api_key, case_data, image_file, reply) ==
    LET prompt == [task |-> "questions",
                   year |-> dict_get(case_data, "year"),
                   plan |-> dict_get(case_data, "plan"),
                   desc |-> dict_get(case_data, "desc")]
        request == [stage |-> 1, api_key |-> api_key, json_object |-> TRUE,
                    blocks |-> <<TextBlock(prompt)>> \o image_blocks(image_file)]
        parsed == json_loads(reply.content)
        caught == \/ reply.status = "error"
                  \/ parsed.raised
                  \/ parsed.value.t # "obj"
    IN  [request |-> request,
         caught |-> caught,
         value |-> IF caught THEN JList(ExceptQuestions)
                   ELSE pairs_get(parsed.value.pairs, "questions", JList(<<>>))]

\* generate_dynamic_questions: the request it sends, the value it returns and
\* whether it went through the except branch (st.error)
generate_dynamic_questions(api_key, case_data, image_file, reply) ==
    LET prompt == [task |-> "questions",
                   year |-> dict_get(case_data, "year"),
                   plan |-> dict_get(case_data, "plan"),
                   desc |-> dict_get(case_data, "desc")]
        request == [stage |-> 1, api_key |-> api_key, json_object |-> TRUE,
                    blocks |-> <<TextBlock(prompt)>> \o image_blocks(image_file)]
        parsed == json_loads(reply.content)
        caught == \/ reply.status = "error"
                  \/ parsed.raised
                  \/ parsed.value.t # "obj"
    IN  [request |-> request,
         caught |-> caught,
         value |-> IF caught THEN JList(ExceptQuestions)
                   ELSE pairs_get(parsed.value.pairs, "questions",
                                  JList(GetDefaultQuestions))]

\* zip(questions, answers)
RECURSIVE zip(_, _)
zip(q, a) ==
    IF q = <<>> \/ a = <<>> THEN <<>>
    ELSE << <<Head(q), Head(a)>> >> \o zip(Tail(q), Tail(a))

\* the interview transcript, as the pieces the f-string concatenates
RECURSIVE interview_text(_)
interview_text(pairs) ==
    IF pairs = <<>> THEN <<>>
    ELSE <<"Q: ", Head(pairs)[1], "\nA: ", Head(pairs)[2], "\n">>
         \o interview_text(Tail(pairs))

\* get_final_diagnosis: no try/except, an error of the call is raised to the caller.
\* With no image the user content is the prompt string; it is kept here as
\* the one text block it amounts to.
get_final_diagnosis(api_key, case_data, questions, answers, image_file, reply) ==
    LET prompt == [task |-> "diagnosis",
                   year |-> dict_get(case_data, "year"),
                   plan |-> dict_get(case_data, "plan"),
                   desc |-> dict_get(case_data, "desc"),
                   interview |-> interview_text(zip(py_iter(questions), answers))]
        request == [stage |-> 2, api_key |-> api_key, json_object |-> FALSE,
                    blocks |-> <<TextBlock(prompt)>> \o image_blocks(image_file)]
    IN  [request |-> request,
         raised |-> reply.status = "error",
         report |-> reply.text]

(***************************************************************************)
(* What the user and the service can supply.                               *)
(***************************************************************************)
SECRET_NAME == "OPENAI_API_KEY"

\* the deployment's st.secrets: without the key, or with it
SecretsChoices == {EmptyDict, [OPENAI_API_KEY |-> "sk-secret"]}

KeyChoices == {"", "sk-typed"}

Nowhere == <<"9","9","9"," ","N","o","w","h","e","r","e"," ","L","n">>

Fragments ==
    { Key123MainSt, str_lower(Key123MainSt), str_upper(Key456OakAve),
      Key789PineRd, Nowhere, SubSeq(Key123MainSt, 1, 8), <<",", " ">> }

RECURSIVE Concatenations(_)
Concatenations(n) ==
    IF n = 0 THEN {<<>>}
    ELSE LET shorter == Concatenations(n - 1)
         IN  shorter \cup {a \o f : a \in shorter, f \in Fragments}

\* the addresses tried in the wizard, and the larger set the lookup alone is run on
AddressChoices == Concatenations(1)
LookupInputs == Concatenations(MaxFragments)

YearChoices == {2001}
DescChoices == {"", "Wet spot on ceiling"}
AnswerChoices == {"", "yes"}

QuestionPool ==
    <<"Where is the wet spot?", "Is the water hot?", "Any smell?",
      "Since when?", "Is it dripping?", "Is the meter running?">>

Questions(v) == JObj(<< <<"questions", v>> >>)

Stage1Docs ==
    {Questions(JList(SubSeq(QuestionPool, 1, n))) : n \in 0..MaxQuestions}
    \cup {Questions(JNull), Questions(JStr(<<"o", "k">>)), Questions(JNum(3)),
          Questions(JObj(<< <<"q1", JStr(<<"o", "k">>)>> >>))}
    \cup {JObj(<<>>), JObj(<< <<"items", JList(<<"Any smell?">>)>> >>)}
    \cup {JList(<<"Any smell?">>), JNull, JStr(<<"o", "k">>), JNum(3)}

Stage1Replies ==
    {ErrorReply, JsonReply(NotJson)} \cup {JsonReply(JsonText(d)) : d \in Stage1Docs}

\* the service answers a request that carries no credential with an error
Stage2Replies(api_key) ==
    IF api_key = "" THEN {ErrorReply}
    ELSE {ErrorReply, TextReply("Most likely cause: corroded supply line")}

(***************************************************************************)
(* The script, part by part.                                               *)
(***************************************************************************)
\* sidebar: the key the rest of the script uses
api_key == IF Has(secrets, SECRET_NAME) THEN secrets[SECRET_NAME] ELSE key_input

Msg(level, text) == [level |-> level, text |-> text]
LicenseActive == Msg("success", "License Active")
FoundRecord == Msg("success", "Found Record")
NotFoundWarning == Msg("warning", "Address not found in mock DB. Using manual entry.")
VideoInfo == Msg("info", "Video uploaded. AI will analyze the visual context.")
ConfigError == Msg("error", "Please enter API Key in sidebar.")
AnalysisComplete == Msg("success", "Analysis Complete")
UncaughtException == Msg("exception", "uncaught exception")

sidebar == IF Has(secrets, SECRET_NAME) THEN {LicenseActive} ELSE {}

\* `pressed` when the interaction pressed no button
NoButton == "none"

NoReport == [present |-> FALSE, text |-> ""]
Report(t) == [present |-> TRUE, text |-> t]

\* a faulty variant: a miss stores nothing
fetch_store_no_default(d, addr) ==
    LET found_data == find_record(addr)
    IN  IF found_data # NoRecord
        THEN Put(Put(d, "year", found_data.year), "plans", found_data.plans)
        ELSE d

\* step 1, `if fetch_btn and address`: the lookup and what it stores
fetch_store(d, addr) ==
    LET found_data == find_record(addr)
    IN  IF found_data # NoRecord
        THEN Put(Put(d, "year", found_data.year), "plans", found_data.plans)
        ELSE Put(Put(d, "year", DefaultYear), "plans", DefaultPlans)

fetch_message(addr) ==
    IF find_record(addr) # NoRecord THEN FoundRecord ELSE NotFoundWarning

\* st.number_input(value=...): the value, unless the user just edited it
number_input(value, edit) == IF edit # <<>> THEN edit[1] ELSE value

\* st.selectbox(options): the user's choice, kept while it is among the
\* options, else the first option
selectbox(options, kept, edit) ==
    IF edit # <<>> THEN edit[1]
    ELSE IF kept # <<>> /\ \E i \in 1..Len(options) : options[i] = kept[1] THEN kept[1]
    ELSE options[1]

\* step 1, `if 'year' in st.session_state.data`
property_widgets(d, year_edit, plan_edit) ==
    IF Has(d, "year")
    THEN LET options == IF Has(d, "plans") THEN d["plans"] ELSE <<"Unknown">>
             kept == IF Has(d, "plan") THEN <<d["plan"]>> ELSE <<>>
         IN  Put(Put(d, "year", number_input(d["year"], year_edit)),
                 "plan", selectbox(options, kept, plan_edit))
    ELSE d

\* a faulty gate: the Confirm button is always rendered
confirm_always(d) == TRUE

\* step 1: the year, plan and Confirm widgets are rendered only under
\* `if 'year' in st.session_state.data`
confirm_rendered(d) == Has(d, "year")

\* a faulty variant: an empty description is not replaced by the default text
evidence_store_no_default(d, file, desc) ==
    LET d1 == IF Truthy(file)
              THEN Put(Put(d, "media", file), "type", split_first(file.type, "/"))
              ELSE d
    IN  IF desc # "" THEN Put(d1, "desc", desc) ELSE d1

\* step 2: the upload and the description are written into the Case Store
evidence_store(d, file, desc) ==
    LET d1 == IF Truthy(file)
              THEN Put(Put(d, "media", file), "type", split_first(file.type, "/"))
              ELSE d
    IN  Put(d1, "desc", IF desc # "" THEN desc ELSE "No text description provided.")

evidence_messages(file) ==
    IF Truthy(file) /\ split_first(file.type, "/") = KindVideo THEN {VideoInfo} ELSE {}

\* a faulty variant: the stored media is passed on whatever its kind
case_image_any_kind(d) == IF Has(d, "media") THEN d["media"] ELSE NoFile

\* the image both steps hand to the AI call
case_image(d) ==
    IF Has(d, "type") /\ d["type"] = KindImage /\ Has(d, "media")
    THEN d["media"] ELSE NoFile

\* a faulty variant: each answer is put in front of the list
RECURSIVE collect_answers_reversed(_, _, _)
collect_answers_reversed(questions, typed, i) ==
    IF i > Len(questions) THEN <<>>
    ELSE collect_answers_reversed(questions, typed, i + 1) \o <<typed[i]>>

\* step 3: the answers list the form builds, one text_input per question
RECURSIVE collect_answers(_, _, _)
collect_answers(questions, typed, i) ==
    IF i > Len(questions) THEN <<>>
    ELSE <<typed[i]>> \o collect_answers(questions, typed, i + 1)

(***************************************************************************)
(* Initial state: a fresh session (lines 11-13), nothing typed or uploaded. *)
(***************************************************************************)
Init ==
    /\ step = 1
    /\ data = EmptyDict
    /\ ai_questions = JList(<<>>)
    /\ final_report = NoReport
    /\ secrets \in SecretsChoices
    /\ key_input = ""
    /\ address = <<>>
    /\ uploaded_file = NoFile
    /\ desc_input = ""
    /\ form_answers = <<>>
    /\ screen = sidebar
    /\ outbound = <<>>
    /\ inbound = <<>>
    /\ crashed = FALSE
    /\ pressed = NoButton
    /\ enc_arg = NoFile
    /\ enc_ret = <<>>

NoCall == outbound' = <<>> /\ inbound' = <<>>

\* one execution of the step-1 branch (lines 129-167), Confirm not pressed
PropertyRun(fetch_btn, year_edit, plan_edit) ==
    LET fetching == fetch_btn /\ address' # <<>>
        fetched == IF fetching THEN fetch_store(data, address') ELSE data
    IN  /\ data' = property_widgets(fetched, year_edit, plan_edit)
        /\ screen' = sidebar \cup (IF fetching THEN {fetch_message(address')} ELSE {})
        /\ crashed' = FALSE
        /\ NoCall
        /\ UNCHANGED <<step, ai_questions, final_report, uploaded_file, desc_input,
                     form_answers>>

\* one execution of the step-2 branch (lines 170-200), Analyze not pressed
EvidenceRun ==
    /\ data' = evidence_store(data, uploaded_file', desc_input')
    /\ screen' = sidebar \cup evidence_messages(uploaded_file')
    /\ crashed' = FALSE
    /\ NoCall
    /\ UNCHANGED <<step, ai_questions, final_report, address, form_answers>>

\* one execution of the step-3 branch (lines 203-219), Submit not pressed:
\* enumerate(ai_questions) raises on a value that is not iterable
InterviewRun ==
    /\ crashed' = ~Iterable(ai_questions')
    /\ screen' = sidebar \cup (IF Iterable(ai_questions') THEN {} ELSE {UncaughtException})

\* one execution of the step-4 branch (lines 222-250), no button pressed
DiagnosisRun(reply) ==
    IF final_report.present
    THEN /\ final_report' = final_report
         /\ NoCall
         /\ crashed' = FALSE
         /\ screen' = sidebar \cup {AnalysisComplete}
    ELSE LET out == get_final_diagnosis(api_key', data', ai_questions',
                                        data'["answers"], case_image(data'), reply)
         IN  /\ outbound' = <<out.request>>
             /\ inbound' = <<reply>>
             /\ crashed' = out.raised
             /\ final_report' = IF out.raised THEN NoReport ELSE Report(out.report)
             /\ screen' = sidebar \cup
                    (IF out.raised THEN {UncaughtException} ELSE {AnalysisComplete})

\* a script run in which no button is pressed, at whatever step the wizard is
PlainRun ==
    CASE step = 1 -> /\ UNCHANGED address
                     /\ PropertyRun(FALSE, <<>>, <<>>)
      [] step = 2 -> /\ UNCHANGED <<uploaded_file, desc_input>>
                     /\ EvidenceRun
      [] step = 3 -> /\ UNCHANGED <<step, data, ai_questions, final_report,
                                    address, uploaded_file, desc_input,
                                    form_answers>>
                     /\ InterviewRun
                     /\ NoCall
      [] step = 4 -> /\ UNCHANGED <<step, data, ai_questions,
                                    address, uploaded_file, desc_input,
                                    form_answers>>
                     /\ \E reply \in Stage2Replies(api_key') : DiagnosisRun(reply)

(***************************************************************************)
(* User interactions.                                                      *)
(***************************************************************************)
\* sidebar: the user types (or clears) the API key; shown only without a secret
SetApiKey(k) ==
    /\ ~Has(secrets, SECRET_NAME)
    /\ k # key_input
    /\ key_input' = k
    /\ pressed' = NoButton
    /\ UNCHANGED <<secrets, enc_arg, enc_ret>>
    /\ PlainRun

\* the browser re-runs the script (Streamlit's Rerun)
Rerun ==
    /\ pressed' = NoButton
    /\ UNCHANGED <<secrets, key_input, enc_arg, enc_ret>>
    /\ PlainRun

EditAddress(a) ==
    /\ step = 1
    /\ a # address
    /\ address' = a
    /\ pressed' = NoButton
    /\ PropertyRun(FALSE, <<>>, <<>>)
    /\ UNCHANGED <<secrets, key_input, enc_arg, enc_ret>>

AutoFetch ==
    /\ step = 1
    /\ UNCHANGED address
    /\ pressed' = "AutoFetch"
    /\ PropertyRun(TRUE, <<>>, <<>>)
    /\ UNCHANGED <<secrets, key_input, enc_arg, enc_ret>>

EditYear(y) ==
    /\ step = 1
    /\ Has(data, "year")
    /\ y # data["year"]
    /\ UNCHANGED address
    /\ pressed' = NoButton
    /\ PropertyRun(FALSE, <<y>>, <<>>)
    /\ UNCHANGED <<secrets, key_input, enc_arg, enc_ret>>

SelectPlan(i) ==
    /\ step = 1
    /\ Has(data, "year")
    /\ i \in 1..Len(data["plans"])
    /\ data["plans"][i] # data["plan"]
    /\ UNCHANGED address
    /\ pressed' = NoButton
    /\ PropertyRun(FALSE, <<>>, <<data["plans"][i]>>)
    /\ UNCHANGED <<secrets, key_input, enc_arg, enc_ret>>

\* a faulty variant: Confirm sets step = 3 and the evidence step is skipped
ConfirmSkipsEvidence ==
    /\ step = 1
    /\ confirm_rendered(data)
    /\ step' = 3
    /\ address' = <<>>
    /\ data' = property_widgets(data, <<>>, <<>>)
    /\ screen' = sidebar
    /\ crashed' = FALSE
    /\ NoCall
    /\ pressed' = "Confirm"
    /\ UNCHANGED <<ai_questions, final_report, secrets, key_input, uploaded_file,
                   desc_input, form_answers, enc_arg, enc_ret>>

\* "Confirm Property Info": rendered only when 'year' is in the Case Store;
\* step = 2, st.rerun(), and the step-2 branch runs with fresh widgets
Confirm ==
    /\ step = 1
    /\ confirm_rendered(data)
    /\ step' = 2
    /\ address' = <<>>
    /\ uploaded_file' = NoFile
    /\ desc_input' = ""
    /\ data' = evidence_store(property_widgets(data, <<>>, <<>>), NoFile, "")
    /\ screen' = sidebar
    /\ crashed' = FALSE
    /\ NoCall
    /\ pressed' = "Confirm"
    /\ UNCHANGED form_answers
    /\ UNCHANGED <<ai_questions, final_report, secrets, key_input, enc_arg, enc_ret>>

Upload(f) ==
    /\ step = 2
    /\ f # uploaded_file
    /\ uploaded_file' = f
    /\ UNCHANGED desc_input
    /\ pressed' = NoButton
    /\ EvidenceRun
    /\ UNCHANGED <<secrets, key_input, enc_arg, enc_ret>>

\* the user removes the file from the uploader
RemoveUpload ==
    /\ step = 2
    /\ uploaded_file # NoFile
    /\ uploaded_file' = NoFile
    /\ UNCHANGED desc_input
    /\ pressed' = NoButton
    /\ EvidenceRun
    /\ UNCHANGED <<secrets, key_input, enc_arg, enc_ret>>

EditDesc(t) ==
    /\ step = 2
    /\ t # desc_input
    /\ desc_input' = t
    /\ UNCHANGED uploaded_file
    /\ pressed' = NoButton
    /\ EvidenceRun
    /\ UNCHANGED <<secrets, key_input, enc_arg, enc_ret>>

\* a faulty variant: the handler does not look at the key before the call
AnalyzeUnchecked(reply) ==
    /\ step = 2
    /\ pressed' = "Analyze"
    /\ UNCHANGED <<secrets, key_input, enc_arg, enc_ret, final_report, address>>
    /\ data' = evidence_store(data, uploaded_file, desc_input)
    /\ LET out == generate_dynamic_questions(api_key, data', case_image(data'), reply)
       IN  /\ outbound' = <<out.request>>
           /\ inbound' = <<reply>>
           /\ ai_questions' = out.value
           /\ step' = 3
           /\ uploaded_file' = NoFile
           /\ desc_input' = ""
           /\ form_answers' = [i \in 1..Len(py_iter(out.value)) |-> ""]
           /\ InterviewRun

\* "Analyze & Generate Questions" (lines 190-200).  Without a key: the error
\* message and nothing else.  With a key: the stage-1 call, whatever it
\* returns is stored, step = 3, st.rerun(), and the step-3 branch runs.
Analyze(reply) ==
    /\ step = 2
    /\ pressed' = "Analyze"
    /\ UNCHANGED <<secrets, key_input, enc_arg, enc_ret, final_report, address>>
    /\ data' = evidence_store(data, uploaded_file, desc_input)
    /\ IF api_key = ""
       THEN /\ screen' = sidebar \cup evidence_messages(uploaded_file) \cup {ConfigError}
            /\ crashed' = FALSE
            /\ NoCall
            /\ UNCHANGED <<step, ai_questions, uploaded_file, desc_input,
                           form_answers>>
       ELSE LET out == generate_dynamic_questions(api_key, data', case_image(data'), reply)
            IN  /\ outbound' = <<out.request>>
                /\ inbound' = <<reply>>
                /\ ai_questions' = out.value
                /\ step' = 3
                /\ uploaded_file' = NoFile
                /\ desc_input' = ""
                /\ form_answers' = [i \in 1..Len(py_iter(out.value)) |-> ""]
                /\ InterviewRun

\* "Get Final Diagnosis" (lines 207-219): the form's answers are stored,
\* step = 4, st.rerun(), and the step-4 branch runs
\* the user types into answer field i of the form; a form sends nothing
\* and runs nothing until it is submitted
TypeAnswer(i, t) ==
    /\ step = 3
    /\ ~crashed
    /\ i \in 1..Len(form_answers)
    /\ form_answers[i] # t
    /\ form_answers' = [form_answers EXCEPT ![i] = t]
    /\ UNCHANGED <<step, data, ai_questions, final_report, secrets, key_input,
                   address, uploaded_file, desc_input, screen, outbound, inbound,
                   crashed, pressed, enc_arg, enc_ret>>

Submit ==
    /\ step = 3
    /\ ~crashed
    /\ pressed' = "Submit"
    /\ UNCHANGED <<secrets, key_input, enc_arg, enc_ret,
                   ai_questions, address, uploaded_file, desc_input>>
    /\ data' = Put(data, "answers",
                    collect_answers(py_iter(ai_questions), form_answers, 1))
    /\ step' = 4
    /\ form_answers' = <<>>
    /\ \E reply \in Stage2Replies(api_key) : DiagnosisRun(reply)

\* "Get Repair Estimate": a button with no handler, the script just runs again
RepairEstimate ==
    /\ step = 4
    /\ ~crashed
    /\ pressed' = "RepairEstimate"
    /\ UNCHANGED <<secrets, key_input, enc_arg, enc_ret>>
    /\ PlainRun

\* a faulty variant: only the step is reset, the session state is not cleared
NewCaseStepOnly ==
    /\ step = 4
    /\ ~crashed
    /\ step' = 1
    /\ data' = property_widgets(data, <<>>, <<>>)
    /\ screen' = sidebar
    /\ crashed' = FALSE
    /\ NoCall
    /\ pressed' = "NewCase"
    /\ UNCHANGED <<ai_questions, final_report, secrets, key_input, address,
                   uploaded_file, desc_input, form_answers, enc_arg, enc_ret>>

\* "New Case": st.session_state.clear(), st.rerun(); lines 11-13 set the
\* session state up again and the step-1 branch runs on an empty Case Store
NewCase ==
    /\ step = 4
    /\ ~crashed
    /\ step' = 1
    /\ data' = property_widgets(EmptyDict, <<>>, <<>>)
    /\ ai_questions' = JList(<<>>)
    /\ final_report' = NoReport
    /\ screen' = sidebar
    /\ crashed' = FALSE
    /\ NoCall
    /\ pressed' = "NewCase"
    /\ UNCHANGED <<secrets, key_input, address, uploaded_file, desc_input,
                   form_answers, enc_arg, enc_ret>>

Next ==
    \/ \E k \in KeyChoices : SetApiKey(k)
    \/ Rerun
    \/ \E a \in AddressChoices : EditAddress(a)
    \/ AutoFetch
    \/ \E y \in YearChoices : EditYear(y)
    \/ \E i \in 1..2 : SelectPlan(i)
    \/ Confirm
    \/ \E f \in UploadChoices : Upload(f)
    \/ RemoveUpload
    \/ \E t \in DescChoices : EditDesc(t)
    \/ \E reply \in Stage1Replies : Analyze(reply)
    \/ \E i \in 1..Len(form_answers), t \in AnswerChoices : TypeAnswer(i, t)
    \/ Submit
    \/ RepairEstimate
    \/ NewCase

Spec == Init /\ [][Next]_vars

(***************************************************************************)
(* The property lookup alone: a fresh session with any address typed in,   *)
(* then Auto-Fetch.                                                        *)
(***************************************************************************)
InitLookup ==
    /\ step = 1
    /\ data = EmptyDict
    /\ ai_questions = JList(<<>>)
    /\ final_report = NoReport
    /\ secrets \in SecretsChoices
    /\ key_input = ""
    /\ address \in LookupInputs
    /\ uploaded_file = NoFile
    /\ desc_input = ""
    /\ form_answers = <<>>
    /\ screen = sidebar
    /\ outbound = <<>>
    /\ inbound = <<>>
    /\ crashed = FALSE
    /\ pressed = NoButton
    /\ enc_arg = NoFile
    /\ enc_ret = <<>>

NextLookup == AutoFetch

SpecLookup == InitLookup /\ [][NextLookup]_vars

(***************************************************************************)
(* encode_image alone, on None and on files of any small content.          *)
(***************************************************************************)
ByteSamples == {0, 1, 63, 64, 127, 128, 252, 255}

ByteStrings == UNION {[1..n -> ByteSamples] : n \in 0..MaxBytes}

EncodeInputs ==
    {NoFile} \cup {[name |-> "upload.png", type |-> MimeImagePng, bytes |-> b] :
                    b \in ByteStrings}

InitEncode ==
    /\ step = 1
    /\ data = EmptyDict
    /\ ai_questions = JList(<<>>)
    /\ final_report = NoReport
    /\ secrets = EmptyDict
    /\ key_input = ""
    /\ address = <<>>
    /\ uploaded_file = NoFile
    /\ desc_input = ""
    /\ form_answers = <<>>
    /\ screen = {}
    /\ outbound = <<>>
    /\ inbound = <<>>
    /\ crashed = FALSE
    /\ pressed = NoButton
    /\ enc_arg \in EncodeInputs
    /\ enc_ret = <<>>

EncodeCall ==
    /\ enc_ret = <<>>
    /\ enc_ret' = <<encode_image(enc_arg)>>
    /\ UNCHANGED <<enc_arg, wizardVars>>

NextEncode == EncodeCall

SpecEncode == InitEncode /\ [][NextEncode]_vars

(***************************************************************************)
(*                              The claims                                 *)
(***************************************************************************)
\* the service's reply to the call of the last interaction was an error
CallFailed(inb) == inb # <<>> /\ inb[1].status = "error"

\* the last script run was at step 4 and found no stored report, so that the
\* final diagnosis was due in it
DiagnosisDue == step = 4 /\ (outbound # <<>> \/ ~final_report.present)

\* C1: whenever the credential is empty when a diagnosis call would be made
\* (Analyze pressed at step 2, or the diagnosis due on a step-4 run), the
\* configuration-error message is shown and no outbound call is issued.
C1_NoCallWithoutCredential ==
    ((pressed = "Analyze" \/ DiagnosisDue) /\ api_key = "")
        => (ConfigError \in screen /\ outbound = <<>>)

\* C2: a failed outbound call, of stage 1 or of stage 2, never ends the
\* script run in an uncaught exception.
C2_FailureNeverUncaught ==
    CallFailed(inbound) => ~crashed

\* C3: an interaction whose outbound call fails leaves the wizard step as
\* it was.
C3_FailedCallKeepsStep ==
    [][CallFailed(inbound') => step' = step]_vars

\* the stage-1 content is no JSON, no JSON object, or an object without
\* a "questions" key
Malformed(reply) ==
    /\ reply.status = "ok"
    /\ \/ ~reply.content.json
       \/ reply.content.doc.t # "obj"
       \/ \A i \in 1..Len(reply.content.doc.pairs) :
              reply.content.doc.pairs[i][1] # "questions"

AnalyzedMalformed ==
    pressed = "Analyze" /\ inbound # <<>> /\ Malformed(inbound[1])

\* C4: after Analyze with a malformed stage-1 response the stored questions
\* are one of the two fixed lists of exactly three questions, nothing was
\* raised, and the wizard is at step 3 with those questions.
C4_MalformedFallsBack ==
    AnalyzedMalformed =>
        /\ ai_questions.t = "list"
        /\ ai_questions.items \in {ExceptQuestions, GetDefaultQuestions}
        /\ Len(ai_questions.items) = 3
        /\ ~crashed
        /\ step = 3
        /\ Len(form_answers) = 3

C4_Witness ==
    /\ AnalyzedMalformed
    /\ inbound[1].content.json
    /\ inbound[1].content.doc.t = "obj"
    /\ ai_questions = JList(GetDefaultQuestions)

\* C5: the wizard leaves step 1 only with a year in the Case Store, a year
\* gets there only by Auto-Fetch on a non-empty address, and at every step
\* from 2 on, the Diagnosis step included, year and plan are set.
C5_NoAdvanceWithoutProperty ==
    [][ /\ (step = 1 /\ step' # 1) => Has(data, "year")
        /\ (~Has(data, "year") /\ Has(data', "year"))
               => (pressed' = "AutoFetch" /\ address' # <<>>)
        /\ step' >= 2 => (Has(data', "year") /\ Has(data', "plan")) ]_vars

C5_Witness ==
    step = 4 /\ Has(data, "year") /\ Has(data, "plan") /\ final_report.present

HasImageBlock(request) ==
    \E j \in 1..Len(request.blocks) : request.blocks[j].type = "image_url"

StoresImage(d) ==
    Has(d, "media") /\ Has(d, "type") /\ d["type"] = KindImage

\* C6: a request of stage 1 or stage 2 carries an image content block only
\* if the Case Store holds media of kind image; with no media, or with a
\* video, no request carries one.
C6_ImageBlockOnlyForImage ==
    \A i \in 1..Len(outbound) :
        HasImageBlock(outbound[i]) => StoresImage(data)

C6_Witness ==
    /\ outbound # <<>>
    /\ outbound[1].stage = 2
    /\ Has(data, "type")
    /\ data["type"] = KindVideo
    /\ ~HasImageBlock(outbound[1])

Fetched(addr) == pressed = "AutoFetch" /\ address = addr

\* C7: Auto-Fetch on "123 Main St" stores year 1954 and plans that contain
\* "Ranch Style (Crawlspace)"; on "999 Nowhere Ln" it stores year 1990 and
\* plans ["Standard Layout"], shows a warning and no error, and the wizard
\* goes on: it stays at step 1 with Confirm on offer.
C7_LookupExamples ==
    /\ Fetched(Key123MainSt) =>
           /\ Has(data, "year") /\ data["year"] = 1954
           /\ Has(data, "plans")
           /\ \E i \in 1..Len(data["plans"]) :
                  data["plans"][i] = "Ranch Style (Crawlspace)"
    /\ Fetched(Nowhere) =>
           /\ Has(data, "year") /\ data["year"] = 1990
           /\ Has(data, "plans") /\ data["plans"] = <<"Standard Layout">>
           /\ NotFoundWarning \in screen
           /\ \A m \in screen : m.level \notin {"error", "exception"}
           /\ ~crashed
           /\ step = 1
           /\ confirm_rendered(data)

C7_Witness ==
    Fetched(Nowhere) /\ NotFoundWarning \in screen /\ Has(data, "plan")

\* the table keys found in an address, case ignored
MatchingKeys(addr) ==
    {i \in 1..Len(MOCK_PROPERTY_DB) :
        str_in(str_lower(MOCK_PROPERTY_DB[i].key), str_lower(addr))}

\* C8: Auto-Fetch on a non-empty address stores the record of the first key,
\* in table order, that is a case-insensitive substring of the address, and
\* the default record only when no key is.
C8_FirstMatchWins ==
    (pressed = "AutoFetch" /\ address # <<>>) =>
        /\ Has(data, "year") /\ Has(data, "plans")
        /\ LET found == MatchingKeys(address)
           IN  IF found = {}
               THEN data["year"] = DefaultYear /\ data["plans"] = DefaultPlans
               ELSE LET first == CHOOSE i \in found : \A j \in found : i <= j
                    IN  /\ data["year"] = MOCK_PROPERTY_DB[first].year
                        /\ data["plans"] = MOCK_PROPERTY_DB[first].plans

\* an address in which a later key of the table comes before an earlier one,
\* in other letter case than the table's
C8_Witness ==
    /\ pressed = "AutoFetch"
    /\ address = Key789PineRd \o str_lower(Key123MainSt)
    /\ data["year"] = 1954

\* the decoding of base64 text: four characters give three bytes, "=" marks
\* a short last group (RFC 4648)
B64Index(c) == (CHOOSE i \in 1..Len(B64Alphabet) : B64Alphabet[i] = c) - 1

RECURSIVE b64decode(_)
b64decode(s) ==
    IF Len(s) < 4 THEN <<>>
    ELSE LET a == B64Index(s[1])
             b == B64Index(s[2])
             rest == b64decode(SubSeq(s, 5, Len(s)))
         IN  IF s[3] = "="
             THEN <<(a * 4 + b \div 16) % 256>>
             ELSE IF s[4] = "="
             THEN LET c == B64Index(s[3])
                  IN  <<(a * 4 + b \div 16) % 256, (b * 16 + c \div 4) % 256>>
             ELSE LET c == B64Index(s[3])
                      d == B64Index(s[4])
                  IN  <<(a * 4 + b \div 16) % 256, (b * 16 + c \div 4) % 256,
                        (c * 64 + d) % 256>> \o rest

\* C9: encode_image of a file returns base64 text that decodes to exactly
\* the file's bytes; encode_image of None returns None.
C9_EncodeRoundTrip ==
    enc_ret # <<>> =>
        IF enc_arg = NoFile
        THEN enc_ret[1] = NoText
        ELSE /\ ~enc_ret[1].none
             /\ Len(enc_ret[1].text) % 4 = 0
             /\ b64decode(enc_ret[1].text) = enc_arg.bytes

C9_Witness ==
    /\ enc_ret # <<>>
    /\ enc_arg # NoFile
    /\ Len(enc_arg.bytes) = 2
    /\ b64decode(enc_ret[1].text) = enc_arg.bytes

\* the transcript of a stage-2 request
Transcript(request) == request.blocks[1].text.interview

\* C10: when the final-diagnosis prompt is composed, there are as many
\* answers as questions, the answers are the ones typed into the form at the
\* same positions, and the transcript is question i then answer i, for every
\* i in question order, and nothing else.
C10_TranscriptPairsInOrder ==
    [][ (outbound' # <<>> /\ outbound'[1].stage = 2) =>
          LET q == py_iter(ai_questions')
              a == data'["answers"]
              t == Transcript(outbound'[1])
          IN  /\ Len(a) = Len(q)
              /\ (step = 3 => a = form_answers)
              /\ Len(t) = 5 * Len(q)
              /\ \A i \in 1..Len(q) :
                     /\ t[5 * i - 4] = "Q: "
                     /\ t[5 * i - 3] = q[i]
                     /\ t[5 * i - 2] = "\nA: "
                     /\ t[5 * i - 1] = a[i]
                     /\ t[5 * i] = "\n" ]_vars

C10_Witness ==
    /\ step = 4
    /\ outbound # <<>>
    /\ outbound[1].stage = 2
    /\ Len(data["answers"]) = 3
    /\ data["answers"] = <<"yes", "", "yes">>
    /\ final_report.present

\* C11: the stored question set never holds more than three questions,
\* whatever list the service returns under "questions".
C11_AtMostThreeQuestions ==
    ai_questions.t = "list" => Len(ai_questions.items) <= 3

\* C12: after stage 1 the stored questions are always a list (a "questions"
\* value of any other type is replaced by the fallback list), and step 3
\* always renders.
C12_QuestionsAlwaysAList ==
    step = 3 => (ai_questions.t = "list" /\ ~crashed)

\* C13: after New Case the session is as a fresh one: step 1, an empty Case
\* Store, no questions, no stored report, empty widgets and form, and no
\* request of the old case left.
C13_NewCaseDiscardsCase ==
    pressed = "NewCase" =>
        /\ step = 1
        /\ data = EmptyDict
        /\ ai_questions = JList(<<>>)
        /\ final_report = NoReport
        /\ address = <<>>
        /\ uploaded_file = NoFile
        /\ desc_input = ""
        /\ form_answers = <<>>
        /\ outbound = <<>>
        /\ inbound = <<>>
        /\ ~crashed
        /\ screen = sidebar

C13_Witness ==
    pressed = "NewCase" /\ step = 1 /\ data = EmptyDict /\ ~final_report.present

\* C14: no error is fatal to the flow; in particular in every state at
\* step 4 the New Case action is available, so that the case can be closed.
C14_NewCaseAlwaysAvailable ==
    step = 4 => ENABLED NewCase

\* C15: the wizard starts at step 1, step is always one of 1..4, and step
\* changes only 1->2 by Confirm, 2->3 by Analyze, 3->4 by Get Final
\* Diagnosis and 4->1 by New Case; every other interaction leaves it alone.
C15_StepOrder ==
    /\ step = 1
    /\ [][ /\ step' \in 1..4
           /\ step' # step =>
                \/ step = 1 /\ step' = 2 /\ pressed' = "Confirm"
                \/ step = 2 /\ step' = 3 /\ pressed' = "Analyze"
                \/ step = 3 /\ step' = 4 /\ pressed' = "Submit"
                \/ step = 4 /\ step' = 1 /\ pressed' = "NewCase"
           /\ pressed' \notin {"Confirm", "Analyze", "Submit", "NewCase"}
                => step' = step ]_vars

C15_Witness ==
    step = 3 /\ pressed = "Analyze" /\ ~crashed /\ Len(form_answers) = 3

\* C16: Analyze pressed at step 2 with an empty credential changes nothing
\* but the message on screen: step stays 2, the questions and the Case
\* Store are as before, no report is created and no call is issued.
C16_AnalyzeWithoutKeyBlocks ==
    [][ (step = 2 /\ pressed' = "Analyze" /\ api_key = "") =>
            /\ step' = 2
            /\ ai_questions' = ai_questions
            /\ final_report' = final_report
            /\ ~final_report'.present
            /\ data' = data
            /\ outbound' = <<>>
            /\ ~crashed'
            /\ ConfigError \in screen' ]_vars

C16_Witness ==
    /\ step = 2
    /\ pressed = "Analyze"
    /\ api_key = ""
    /\ ConfigError \in screen
    /\ Has(data, "media")

\* a request of stage 2 is the one the last interaction issued
IssuedDiagnosis(out) == out # <<>> /\ out[1].stage = 2

\* C17: the final-diagnosis call is issued at most once per case: two
\* interactions in a row at step 4 never both issue it, and once a report is
\* stored every further step-4 run other than New Case issues no call and
\* keeps the report.
C17_DiagnosisAtMostOnce ==
    [][ /\ ~(step = 4 /\ step' = 4 /\ IssuedDiagnosis(outbound)
                                   /\ IssuedDiagnosis(outbound'))
        /\ (step = 4 /\ final_report.present /\ pressed' # "NewCase") =>
               (outbound' = <<>> /\ final_report' = final_report) ]_vars

\* C18: when Analyze is pressed with nothing selected in the uploader, the
\* Case Store holds no media and the request carries no image block.
C18_RemovedImageNotSent ==
    [][ (step = 2 /\ pressed' = "Analyze" /\ uploaded_file = NoFile) =>
            /\ ~Has(data', "media")
            /\ outbound' # <<>> => ~HasImageBlock(outbound'[1]) ]_vars

\* C19: at step 4 the Case Store holds the keys year, plan, desc and answers.
C19_Step4KeysPresent ==
    step = 4 =>
        /\ Has(data, "year")
        /\ Has(data, "plan")
        /\ Has(data, "desc")
        /\ Has(data, "answers")

C19_Witness ==
    /\ step = 4
    /\ final_report.present
    /\ Has(data, "year") /\ Has(data, "plan") /\ Has(data, "answers")
    /\ Has(data, "desc") /\ data["desc"] = "No text description provided."

====
